---- MODULE Spec2Model ----
(***************************************************************************)
(* Request handlers of the blog API (posts_controller / comments_controller *)
(* in src/src/controllers/comments_controller.ts) over the two document    *)
(* collections they read and write.  A handler runs up to its next await   *)
(* in one step: every action below is one persistence operation together   *)
(* with the local computation around it.  Several requests are in flight   *)
(* at once, one per slot.                                                  *)
(***************************************************************************)
EXTENDS Integers, FiniteSets, Sequences, TLC

\* Bounds of the model.
MaxPosts == 1
MaxComments == 1
MaxReq == 2

VARIABLES
    posts,        \* the posts collection: _id -> document
    comments,     \* the comments collection: _id -> document
    nextPost,     \* number of Post _ids generated so far
    nextComment,  \* number of Comment _ids generated so far
    req,          \* per slot: the request in flight, suspended at an await
    answered      \* the last request answered, with its response

vars == <<posts, comments, nextPost, nextComment, req, answered>>

Slots == 1..MaxReq

----------------------------------------------------------------------------
\* Identifiers.  A well-formed identifier is a pair <<collection, n>>; any
\* string Types.ObjectId.isValid rejects is the one value MalformedId.  The
\* n-th document constructed in a collection gets the identifier n, and 0 is
\* a well-formed identifier no document ever gets.

PostIds == {<<"post", i>> : i \in 0..MaxPosts}
CommentIds == {<<"comment", i>> : i \in 0..MaxComments}
ReaderId == <<"user", 1>>
MalformedId == <<"malformed", 0>>
NoId == <<"none", 0>>

ObjectIdIsValid(id) == id[1] # "malformed"

\* author: new Types.ObjectId('65068c32be2fd5ade9800662')
PlaceholderAuthor == <<"user", 0>>

\* new Date(): instants grow with every document constructed.
Now == nextPost + nextComment

----------------------------------------------------------------------------
\* Error bodies and response tags.

INVALID_ID == "InvalidId"
INVALID_QUERY == "InvalidQuery"
DOES_NOT_EXIST == "NotFound"
DATABASE_UPDATE_ERROR == "DatabaseUpdateError"
ValidationErrors == "Errors"
Entity == "Entity"
NullEntity == "Null"
UnhandledError == "UnhandledError"

----------------------------------------------------------------------------
\* Request bodies and the express-validator chains.

\* A body is a record of the fields the client sent; Field reads one as
\* req.body[f] does, undefined when the client sent none.
Undefined == "<undefined>"
NoBody == [none |-> TRUE]
Null == [null |-> TRUE]

Has(body, f) == f \in DOMAIN body

Field(body, f) == IF Has(body, f) THEN body[f] ELSE Undefined

\* The inputs carry no HTML-special characters, carriage returns or
\* newlines: on them escape() changes nothing and the paragraph split
\* yields one paragraph.
Trim(s) ==
    CASE s = " " -> ""
      [] s = " New " -> "New"
      [] OTHER -> s

ToLowerCase(s) ==
    CASE s = "News" -> "news"
      [] s = "Tech" -> "tech"
      [] s = "Bogus" -> "bogus"
      [] s = "Yes" -> "yes"
      [] OTHER -> s

\* A standard sanitizer or validator reads an undefined field as ''.
AsString(v) == IF v = Undefined THEN "" ELSE v

categories == {"news", "tech"}

convertToArrayOfParagraphs(text) == <<text>>

SelectionIsYes(selection) == selection = "yes"

\* body('title').trim().notEmpty().escape(), and the other chains of
\* postNewPost: the errors they record.
PostNewPostErrors(body) ==
    (IF Trim(AsString(Field(body, "title"))) = ""
     THEN {"Title must not be empty"} ELSE {})
    \cup (IF ToLowerCase(AsString(Field(body, "category"))) \notin categories
          THEN {"Category must be one of the listed options"} ELSE {})
    \cup (IF Trim(AsString(Field(body, "text"))) = ""
          THEN {"Article cannot be empty"} ELSE {})

\* req.body after the chains of postNewPost ran.
PostNewPostSanitized(body) ==
    [title |-> Trim(AsString(Field(body, "title"))),
     category |-> ToLowerCase(AsString(Field(body, "category"))),
     text |-> convertToArrayOfParagraphs(Trim(AsString(Field(body, "text")))),
     isPublished |->
        SelectionIsYes(ToLowerCase(Trim(AsString(Field(body, "isPublished")))))]

\* The chains of editPost: every field optional(), so a field the client
\* did not send is neither validated nor sanitized.
EditPostErrors(body) ==
    (IF Has(body, "title") /\ Trim(body.title) = ""
     THEN {"Title must not be empty"} ELSE {})
    \cup (IF Has(body, "category") /\ ToLowerCase(body.category) \notin categories
          THEN {"Category must be one of the listed options"} ELSE {})
    \cup (IF Has(body, "text") /\ Trim(body.text) = ""
          THEN {"Article cannot be empty"} ELSE {})

EditPostSanitized(body) ==
    [f \in DOMAIN body |->
        CASE f = "title" -> Trim(body[f])
          [] f = "category" -> ToLowerCase(body[f])
          [] f = "text" -> convertToArrayOfParagraphs(Trim(body[f]))
          [] f = "isPublished" -> SelectionIsYes(ToLowerCase(Trim(body[f])))]

\* body('text', 'Comment cannot be empty').trim().notEmpty() of
\* postNewComment and editComment.
CommentErrors(body) ==
    IF Trim(AsString(Field(body, "text"))) = ""
    THEN {"Comment cannot be empty"} ELSE {}

CommentSanitized(body) == [text |-> Trim(AsString(Field(body, "text")))]

\* The request bodies the model submits.
NewPostBodies ==
    {[title |-> "Old", category |-> "News", text |-> "a"],
     [title |-> "", category |-> "news", text |-> "a", isPublished |-> "Yes"]}

EditPostBodies ==
    {[title |-> " New ", category |-> "Tech", text |-> "b"],
     [isPublished |-> "Yes"],
     [title |-> ""]}

NewCommentBodies == {[text |-> "hi"], [text |-> " "]}

EditCommentBodies == {[text |-> "edited"], [text |-> " "]}

PublishFlags == {"true", "false", "maybe"}

----------------------------------------------------------------------------
\* Documents and the persistence operations the handlers call.

\* commentCount of the Post schema when the constructor is given none.
DefaultCommentCount == 0

\* new Post<PostModel>({...}): the paths given plus the schema's defaults.
NewPostDocument(author, title, timestamp, category, text, isPublished) ==
    [author |-> author, title |-> title, timestamp |-> timestamp,
     category |-> category, text |-> text, isPublished |-> isPublished,
     commentCount |-> DefaultCommentCount]

\* new Comment<CommentModel>({...})
NewCommentDocument(commenter, post, timestamp, text, replies) ==
    [commenter |-> commenter, post |-> post, timestamp |-> timestamp,
     text |-> text, replies |-> replies]

\* A collection holding no document.
EmptyCollection == [x \in {} |-> Null]

\* Model.findById(id): the document, or null.
FindById(coll, id) == IF id \in DOMAIN coll THEN coll[id] ELSE Null

\* doc.save() of a new document.
Insert(coll, id, doc) == (id :> doc) @@ coll

\* DeleteById as a lookup that removes nothing (findById for
\* findByIdAndDelete).
DeleteByIdKeeps(coll, id) == coll

\* Model.findByIdAndDelete(id): the collection without the document.
DeleteById(coll, id) == [x \in DOMAIN coll \ {id} |-> coll[x]]

\* Model.findByIdAndUpdate(id, update): $set of every path of update on the
\* stored document; nothing when there is none (no upsert).
SetFields(coll, id, update) ==
    IF id \in DOMAIN coll
    THEN [coll EXCEPT ![id] =
            [f \in DOMAIN coll[id] |->
                IF f \in DOMAIN update THEN update[f] ELSE coll[id][f]]]
    ELSE coll

\* IncCommentCount as an assignment ({ commentCount: n } for
\* { $inc: { commentCount: n } }).
IncCommentCountAsSet(coll, id, n) ==
    IF id \in DOMAIN coll
    THEN [coll EXCEPT ![id].commentCount = n]
    ELSE coll

\* { $inc: { commentCount: n } } on the post with that id, if stored.
IncCommentCount(coll, id, n) ==
    IF id \in DOMAIN coll
    THEN [coll EXCEPT ![id].commentCount = @ + n]
    ELSE coll

\* req.body[f] ?? fallback
Coalesce(body, f, fallback) == IF Has(body, f) THEN body[f] ELSE fallback

\* PostWithEdits with the flag falling back to false, not to the stored one.
PostWithEditsDefaultFlag(existingPost, body) ==
    NewPostDocument(existingPost.author,
                    Coalesce(body, "title", existingPost.title),
                    existingPost.timestamp,
                    Coalesce(body, "category", existingPost.category),
                    Coalesce(body, "text", existingPost.text),
                    Coalesce(body, "isPublished", FALSE))

\* postWithEdits of editPost.
PostWithEdits(existingPost, body) ==
    NewPostDocument(existingPost.author,
                    Coalesce(body, "title", existingPost.title),
                    existingPost.timestamp,
                    Coalesce(body, "category", existingPost.category),
                    Coalesce(body, "text", existingPost.text),
                    Coalesce(body, "isPublished", existingPost.isPublished))

\* commentWithEdits of editComment.
CommentWithEdits(existingComment, body) ==
    NewCommentDocument(existingComment.commenter, existingComment.post,
                       existingComment.timestamp, body.text,
                       existingComment.replies)

----------------------------------------------------------------------------
\* Requests.

\* A slot with no request in flight.
IdleRequest ==
    [kind |-> "none", pc |-> "idle", id |-> NoId, body |-> NoBody,
     local |-> Null, newId |-> NoId, saved |-> "none", updated |-> "none"]

Free(r) == req[r].pc = "idle"

Quiescent == \A r \in Slots : Free(r)

\* A request that arrives takes the first free slot.
Accepts(r) == Free(r) /\ \A q \in Slots : Free(q) => r <= q

\* A handler suspended at await pc, holding local.
Awaiting(kind, pc, id, body, local) ==
    [IdleRequest EXCEPT !.kind = kind, !.pc = pc, !.id = id, !.body = body,
                        !.local = local]

\* No request answered yet.
NoAnswer ==
    [kind |-> "none", id |-> NoId, malformed |-> FALSE, invalid |-> FALSE,
     status |-> 0, resp |-> "none", dbOps |-> 0]

\* res.status(status).json(resp), sent after dbOps persistence operations
\* to a request of that kind for id; malformed: one of its identifiers is
\* malformed; invalid: its validation chains recorded an error.
Answer(kind, id, malformed, invalid, status, resp, dbOps) ==
    [kind |-> kind, id |-> id, malformed |-> malformed, invalid |-> invalid,
     status |-> status, resp |-> resp, dbOps |-> dbOps]

\* The answer to a request that was suspended at an await: its identifiers
\* and its body had passed the checks.
AnswerAwaited(kind, id, status, resp, dbOps) ==
    Answer(kind, id, FALSE, FALSE, status, resp, dbOps)

Init ==
    /\ posts = EmptyCollection
    /\ comments = EmptyCollection
    /\ nextPost = 0
    /\ nextComment = 0
    /\ req = [r \in Slots |-> IdleRequest]
    /\ answered = NoAnswer

----------------------------------------------------------------------------
\* posts_controller

\* getSpecificPost
GetSpecificPost(r, id) ==
    /\ Accepts(r)
    /\ LET Reply(status, resp, dbOps) ==
               Answer("getPost", id, ~ObjectIdIsValid(id), FALSE, status, resp, dbOps)
       IN answered' =
            IF ~ObjectIdIsValid(id) THEN Reply(400, INVALID_ID, 0)
            ELSE IF FindById(posts, id) = Null THEN Reply(404, DOES_NOT_EXIST, 1)
            ELSE Reply(200, Entity, 1)
    /\ UNCHANGED <<posts, comments, nextPost, nextComment, req>>

\* postNewPost: the handler after its validation chains.
PostNewPost(r, body) ==
    /\ Accepts(r)
    /\ LET clean == PostNewPostSanitized(body)
           id == <<"post", nextPost + 1>>
           post == NewPostDocument(PlaceholderAuthor, clean.title, Now,
                                   clean.category, clean.text, clean.isPublished)
           Reply(to, status, resp, dbOps) ==
               Answer("createPost", to, FALSE, PostNewPostErrors(body) # {},
                      status, resp, dbOps)
       IN IF PostNewPostErrors(body) # {}
          THEN /\ answered' = Reply(NoId, 200, ValidationErrors, 0)
               /\ UNCHANGED <<posts, nextPost>>
          ELSE /\ nextPost < MaxPosts
               /\ nextPost' = nextPost + 1
               /\ posts' = Insert(posts, id, post)
               /\ answered' = Reply(id, 200, Entity, 1)
    /\ UNCHANGED <<comments, nextComment, req>>

\* editPost up to its second await: the id check, the validation result and
\* Post.findById.
EditPostFind(r, id, body) ==
    /\ Accepts(r)
    /\ LET existingPost == FindById(posts, id)
           Reply(status, resp, dbOps) ==
               Answer("editPost", id, ~ObjectIdIsValid(id), EditPostErrors(body) # {},
                      status, resp, dbOps)
       IN IF ~ObjectIdIsValid(id)
          THEN answered' = Reply(400, INVALID_ID, 0) /\ UNCHANGED req
          ELSE IF EditPostErrors(body) # {}
          THEN answered' = Reply(200, ValidationErrors, 0) /\ UNCHANGED req
          ELSE IF existingPost = Null
          THEN answered' = Reply(404, DOES_NOT_EXIST, 1) /\ UNCHANGED req
          ELSE /\ req' = [req EXCEPT ![r] =
                            Awaiting("editPost", "update", id, body, existingPost)]
               /\ UNCHANGED answered
    /\ UNCHANGED <<posts, comments, nextPost, nextComment>>

\* editPost from Post.findByIdAndUpdate(postID, postWithEdits) on.
EditPostUpdate(r) ==
    /\ req[r].kind = "editPost"
    /\ req[r].pc = "update"
    /\ LET postWithEdits ==
               PostWithEdits(req[r].local, EditPostSanitized(req[r].body))
       IN posts' = SetFields(posts, req[r].id, postWithEdits)
    /\ answered' = AnswerAwaited("editPost", req[r].id, 200,
                                 IF req[r].id \in DOMAIN posts
                                 THEN Entity ELSE NullEntity, 2)
    /\ req' = [req EXCEPT ![r] = IdleRequest]
    /\ UNCHANGED <<comments, nextPost, nextComment>>

\* PublishPostError with the flag looked at first.
PublishPostErrorQueryFirst(id, flag) ==
    IF ~ObjectIdIsValid(id) \/ flag \notin {"true", "false"}
    THEN IF flag \notin {"true", "false"} THEN INVALID_QUERY ELSE INVALID_ID
    ELSE "none"

\* The error publishPost answers with, or none.
PublishPostError(id, flag) ==
    IF ~ObjectIdIsValid(id) \/ flag \notin {"true", "false"}
    THEN IF ~ObjectIdIsValid(id) THEN INVALID_ID ELSE INVALID_QUERY
    ELSE "none"

\* The update publishPost passes to findByIdAndUpdate.
PublishUpdate(flag) == [isPublished |-> (flag = "true")]

\* publishPost
PublishPost(r, id, flag) ==
    /\ Accepts(r)
    /\ LET message == PublishPostError(id, flag)
           Reply(status, resp, dbOps) ==
               Answer("publishPost", id, ~ObjectIdIsValid(id), FALSE,
                      status, resp, dbOps)
       IN IF message # "none"
          THEN /\ answered' = Reply(400, message, 0)
               /\ UNCHANGED posts
          ELSE /\ posts' = SetFields(posts, id, PublishUpdate(flag))
               /\ answered' = IF id \in DOMAIN posts
                              THEN Reply(200, Entity, 1)
                              ELSE Reply(404, DOES_NOT_EXIST, 1)
    /\ UNCHANGED <<comments, nextPost, nextComment, req>>

\* DeletePost without the check of what findByIdAndDelete returned.
DeletePostUnchecked(r, id) ==
    /\ Accepts(r)
    /\ LET Reply(status, resp, dbOps) ==
               Answer("deletePost", id, ~ObjectIdIsValid(id), FALSE,
                      status, resp, dbOps)
       IN IF ~ObjectIdIsValid(id)
          THEN /\ answered' = Reply(400, INVALID_ID, 0)
               /\ UNCHANGED posts
          ELSE /\ posts' = DeleteById(posts, id)
               /\ answered' = Reply(200, IF id \in DOMAIN posts
                                         THEN Entity ELSE NullEntity, 1)
    /\ UNCHANGED <<comments, nextPost, nextComment, req>>

\* deletePost
DeletePost(r, id) ==
    /\ Accepts(r)
    /\ LET Reply(status, resp, dbOps) ==
               Answer("deletePost", id, ~ObjectIdIsValid(id), FALSE,
                      status, resp, dbOps)
       IN IF ~ObjectIdIsValid(id)
          THEN /\ answered' = Reply(400, INVALID_ID, 0)
               /\ UNCHANGED posts
          ELSE /\ posts' = DeleteById(posts, id)
               /\ answered' = IF id \in DOMAIN posts
                              THEN Reply(200, Entity, 1)
                              ELSE Reply(404, DOES_NOT_EXIST, 1)
    /\ UNCHANGED <<comments, nextPost, nextComment, req>>

----------------------------------------------------------------------------
\* comments_controller

\* getSpecificComment
GetSpecificComment(r, id) ==
    /\ Accepts(r)
    /\ LET Reply(status, resp, dbOps) ==
               Answer("getComment", id, ~ObjectIdIsValid(id), FALSE,
                      status, resp, dbOps)
       IN answered' =
            IF ~ObjectIdIsValid(id) THEN Reply(400, INVALID_ID, 0)
            ELSE IF FindById(comments, id) = Null THEN Reply(404, DOES_NOT_EXIST, 1)
            ELSE Reply(200, Entity, 1)
    /\ UNCHANGED <<posts, comments, nextPost, nextComment, req>>

\* PostNewCommentResponse content with either result.
PostNewCommentResponseEither(savedComment, updatedPost) ==
    IF savedComment = "ok" \/ updatedPost = "ok"
    THEN <<201, Entity>>
    ELSE <<500, DATABASE_UPDATE_ERROR>>

\* What postNewComment answers once both promises of Promise.all resolved.
PostNewCommentResponse(savedComment, updatedPost) ==
    IF savedComment = "ok" /\ updatedPost = "ok"
    THEN <<201, Entity>>
    ELSE <<500, DATABASE_UPDATE_ERROR>>

\* postNewComment up to Promise.all: the validation result and the
\* construction of the comment.  new Types.ObjectId(s) throws on a
\* malformed s, and express answers the uncaught error with 500.
PostNewComment(r, postID, commenterID, body) ==
    /\ Accepts(r)
    /\ LET malformed == ~ObjectIdIsValid(commenterID) \/ ~ObjectIdIsValid(postID)
           comment == NewCommentDocument(commenterID, postID, Now,
                                         CommentSanitized(body).text, <<>>)
           Reply(status, resp, dbOps) ==
               Answer("createComment", postID, malformed, CommentErrors(body) # {},
                      status, resp, dbOps)
       IN IF CommentErrors(body) # {}
          THEN /\ answered' = Reply(200, ValidationErrors, 0)
               /\ UNCHANGED <<nextComment, req>>
          ELSE IF malformed
          THEN /\ answered' = Reply(500, UnhandledError, 0)
               /\ UNCHANGED <<nextComment, req>>
          ELSE /\ nextComment < MaxComments
               /\ nextComment' = nextComment + 1
               /\ req' = [req EXCEPT ![r] =
                            [Awaiting("createComment", "writes", postID, body, comment)
                               EXCEPT !.newId = <<"comment", nextComment + 1>>,
                                      !.saved = "pending",
                                      !.updated = "pending"]]
               /\ UNCHANGED answered
    /\ UNCHANGED <<posts, comments, nextPost>>

\* postNewComment after one of its two writes resolved, leaving the request
\* as rq: it answers when the other one has resolved too.  The populate of
\* the commenter that comes before the answer reads the authors, which no
\* handler writes.
AfterWrite(r, rq) ==
    IF rq.saved # "pending" /\ rq.updated # "pending"
    THEN LET answer == PostNewCommentResponse(rq.saved, rq.updated)
         IN /\ answered' = AnswerAwaited("createComment", rq.id,
                                         answer[1], answer[2], 2)
            /\ req' = [req EXCEPT ![r] = IdleRequest]
    ELSE /\ req' = [req EXCEPT ![r] = rq]
         /\ UNCHANGED answered

\* comment.save() of postNewComment
CommentSave(r) ==
    /\ req[r].kind = "createComment"
    /\ req[r].pc = "writes"
    /\ req[r].saved = "pending"
    /\ comments' = Insert(comments, req[r].newId, req[r].local)
    /\ AfterWrite(r, [req[r] EXCEPT !.saved = "ok"])
    /\ UNCHANGED <<posts, nextPost, nextComment>>

\* Post.findOneAndUpdate({ _id: postID }, { $inc: { commentCount: 1 } })
\* of postNewComment
PostIncrement(r) ==
    /\ req[r].kind = "createComment"
    /\ req[r].pc = "writes"
    /\ req[r].updated = "pending"
    /\ posts' = IncCommentCount(posts, req[r].id, 1)
    /\ AfterWrite(r, [req[r] EXCEPT !.updated =
                        IF req[r].id \in DOMAIN posts THEN "ok" ELSE "null"])
    /\ UNCHANGED <<comments, nextPost, nextComment>>

\* EditCommentFind without the look at the validation result.
EditCommentFindUnvalidated(r, id, body) ==
    /\ Accepts(r)
    /\ LET existingComment == FindById(comments, id)
           Reply(status, resp, dbOps) ==
               Answer("editComment", id, ~ObjectIdIsValid(id), CommentErrors(body) # {},
                      status, resp, dbOps)
       IN IF ~ObjectIdIsValid(id)
          THEN answered' = Reply(400, INVALID_ID, 0) /\ UNCHANGED req
          ELSE IF existingComment = Null
          THEN answered' = Reply(404, DOES_NOT_EXIST, 1) /\ UNCHANGED req
          ELSE /\ req' = [req EXCEPT ![r] =
                            Awaiting("editComment", "update", id, body, existingComment)]
               /\ UNCHANGED answered
    /\ UNCHANGED <<posts, comments, nextPost, nextComment>>

\* editComment up to its second await.
EditCommentFind(r, id, body) ==
    /\ Accepts(r)
    /\ LET existingComment == FindById(comments, id)
           Reply(status, resp, dbOps) ==
               Answer("editComment", id, ~ObjectIdIsValid(id), CommentErrors(body) # {},
                      status, resp, dbOps)
       IN IF ~ObjectIdIsValid(id)
          THEN answered' = Reply(400, INVALID_ID, 0) /\ UNCHANGED req
          ELSE IF CommentErrors(body) # {}
          THEN answered' = Reply(200, ValidationErrors, 0) /\ UNCHANGED req
          ELSE IF existingComment = Null
          THEN answered' = Reply(404, DOES_NOT_EXIST, 1) /\ UNCHANGED req
          ELSE /\ req' = [req EXCEPT ![r] =
                            Awaiting("editComment", "update", id, body, existingComment)]
               /\ UNCHANGED answered
    /\ UNCHANGED <<posts, comments, nextPost, nextComment>>

\* editComment from Comment.findByIdAndUpdate(commentID, commentWithEdits) on.
EditCommentUpdate(r) ==
    /\ req[r].kind = "editComment"
    /\ req[r].pc = "update"
    /\ LET commentWithEdits ==
               CommentWithEdits(req[r].local, CommentSanitized(req[r].body))
       IN comments' = SetFields(comments, req[r].id, commentWithEdits)
    /\ answered' = AnswerAwaited("editComment", req[r].id, 200,
                                 IF req[r].id \in DOMAIN comments
                                 THEN Entity ELSE NullEntity, 2)
    /\ req' = [req EXCEPT ![r] = IdleRequest]
    /\ UNCHANGED <<posts, nextPost, nextComment>>

\* deleteComment up to its second await: the id check and
\* Comment.findByIdAndDelete.
DeleteCommentFind(r, id) ==
    /\ Accepts(r)
    /\ LET deletedComment == FindById(comments, id)
           Reply(status, resp, dbOps) ==
               Answer("deleteComment", id, ~ObjectIdIsValid(id), FALSE,
                      status, resp, dbOps)
       IN IF ~ObjectIdIsValid(id)
          THEN /\ answered' = Reply(400, INVALID_ID, 0)
               /\ UNCHANGED <<comments, req>>
          ELSE /\ comments' = DeleteById(comments, id)
               /\ IF deletedComment = Null
                  THEN answered' = Reply(404, DOES_NOT_EXIST, 1) /\ UNCHANGED req
                  ELSE /\ req' = [req EXCEPT ![r] =
                                    Awaiting("deleteComment", "decrement", id, NoBody,
                                             deletedComment)]
                       /\ UNCHANGED answered
    /\ UNCHANGED <<posts, nextPost, nextComment>>

\* deleteComment from Post.findByIdAndUpdate(deletedComment.post,
\* { $inc: { commentCount: -1 } }) on.
DeleteCommentDecrement(r) ==
    /\ req[r].kind = "deleteComment"
    /\ req[r].pc = "decrement"
    /\ posts' = IncCommentCount(posts, req[r].local.post, -1)
    /\ answered' = AnswerAwaited("deleteComment", req[r].id, 204, Entity, 2)
    /\ req' = [req EXCEPT ![r] = IdleRequest]
    /\ UNCHANGED <<comments, nextPost, nextComment>>

----------------------------------------------------------------------------
\* The identifiers a client sends: the ones of documents it was once
\* answered with, a well-formed one that matches nothing, a malformed one.
PostIdParams == {<<"post", i>> : i \in 0..nextPost} \cup {MalformedId}
CommentIdParams ==
    {c \in {<<"comment", i>> : i \in 0..nextComment} :
        \A r \in Slots : ~(req[r].newId = c /\ req[r].saved = "pending")}
    \cup {MalformedId}
ReaderIdParams == {ReaderId, MalformedId}

Next ==
    \E r \in Slots :
        \/ \E id \in PostIdParams : GetSpecificPost(r, id)
        \/ \E body \in NewPostBodies : PostNewPost(r, body)
        \/ \E id \in PostIdParams, body \in EditPostBodies : EditPostFind(r, id, body)
        \/ EditPostUpdate(r)
        \/ \E id \in PostIdParams, flag \in PublishFlags : PublishPost(r, id, flag)
        \/ \E id \in PostIdParams : DeletePost(r, id)
        \/ \E id \in CommentIdParams : GetSpecificComment(r, id)
        \/ \E postID \in PostIdParams, commenterID \in ReaderIdParams,
              body \in NewCommentBodies : PostNewComment(r, postID, commenterID, body)
        \/ CommentSave(r)
        \/ PostIncrement(r)
        \/ \E id \in CommentIdParams, body \in EditCommentBodies :
              EditCommentFind(r, id, body)
        \/ EditCommentUpdate(r)
        \/ \E id \in CommentIdParams : DeleteCommentFind(r, id)
        \/ DeleteCommentDecrement(r)

Spec == Init /\ [][Next]_vars

----------------------------------------------------------------------------
\* Properties.

\* The stored documents.
Stored == <<posts, comments>>

\* The comments stored that reference post p.
CommentsOf(p) == {c \in DOMAIN comments : comments[c].post = p}

\* C1: whenever no request is in flight, every stored post's commentCount
\* is the number of stored comments that reference it.
CounterConsistency ==
    Quiescent =>
        \A p \in DOMAIN posts : posts[p].commentCount = Cardinality(CommentsOf(p))

MalformedIdAnswered400 ==
    (answered.malformed /\ ~answered.invalid
     /\ answered.kind \in {"getPost", "editPost", "publishPost", "deletePost",
                           "getComment", "createComment", "editComment",
                           "deleteComment"})
        => /\ answered.status = 400
           /\ answered.resp = INVALID_ID
           /\ answered.dbOps = 0

\* C4: the update of editPost, applied to the post as editPost read it,
\* changes no field but the mutable ones the body supplies: author,
\* timestamp and commentCount keep their stored values, and so does every
\* mutable field the body omits.
EditPostFrame ==
    [][\A r \in Slots :
         (EditPostUpdate(r) /\ req[r].id \in DOMAIN posts
          /\ posts[req[r].id] = req[r].local)
            => /\ DOMAIN posts' = DOMAIN posts
               /\ \A f \in {"author", "timestamp", "commentCount"} :
                     posts'[req[r].id][f] = posts[req[r].id][f]
               /\ \A f \in {"title", "category", "text", "isPublished"}
                          \ DOMAIN req[r].body :
                     posts'[req[r].id][f] = posts[req[r].id][f]
      ]_vars

\* A step in which a request is answered by the handler's first stretch
\* leaves every slot as it was; any other step changes a slot.  In such a
\* step answered' is the request answered and its answer.
AnsweredAtOnce == req' = req

\* A GET, PUT or DELETE request for a well-formed identifier that matches
\* nothing stored is answered at once.
MissingEntityAnswered ==
    /\ AnsweredAtOnce
    /\ \/ /\ answered'.kind \in {"getPost", "editPost", "deletePost"}
          /\ answered'.id \in PostIds \ DOMAIN posts
       \/ /\ answered'.kind \in {"getComment", "editComment", "deleteComment"}
          /\ answered'.id \in CommentIds \ DOMAIN comments

\* A PUT or DELETE handler goes past its lookup.
GoesPastLookup(r) == req[r].pc = "idle" /\ req'[r].pc \in {"update", "decrement"}

\* C5 as stated: GET, PUT and DELETE of a well-formed identifier that matches
\* nothing stored answer 404 whatever the body, and change nothing stored.
MissingEntityAnswered404 ==
    [][MissingEntityAnswered
         => /\ answered'.status = 404
            /\ answered'.resp = DOES_NOT_EXIST
            /\ Stored' = Stored
      ]_vars

\* C5 amended: they answer 404 and change nothing stored, PUT provided its
\* body passes validation; a PUT whose body fails validation is answered
\* 200 with the errors, the stored documents unchanged too.  No handler
\* goes past the lookup of an identifier that matches nothing.
MissingEntityAnswered404WhenBodyValid ==
    [][/\ MissingEntityAnswered
            => /\ Stored' = Stored
               /\ IF answered'.invalid
                  THEN /\ answered'.kind \in {"editPost", "editComment"}
                       /\ answered'.status = 200
                       /\ answered'.resp = ValidationErrors
                  ELSE /\ answered'.status = 404
                       /\ answered'.resp = DOES_NOT_EXIST
       /\ \A r \in Slots :
            GoesPastLookup(r)
               => req'[r].id \in (IF req'[r].kind = "editPost"
                                  THEN DOMAIN posts ELSE DOMAIN comments)
      ]_vars

\* An edit of a post that is not stored was answered 404.
EditOfMissingPostAnswered404 ==
    /\ answered.kind = "editPost"
    /\ answered.status = 404
    /\ answered.id \notin DOMAIN posts
    /\ ~answered.invalid

\* C6: postNewComment answers 201 exactly when the comment was inserted and
\* the increment found the post; when the increment found no post it
\* answers 500 with the database-update error.
CreateCommentAnswer ==
    [][\A r \in Slots :
         ((CommentSave(r) \/ PostIncrement(r)) /\ req'[r].pc = "idle")
            => LET found == IF req[r].updated = "pending"
                            THEN req[r].id \in DOMAIN posts
                            ELSE req[r].updated = "ok"
                   inserted == req[r].newId \in DOMAIN comments'
                                 \/ req[r].saved = "ok"
               IN /\ answered'.kind = "createComment"
                  /\ IF inserted /\ found
                     THEN answered'.status = 201 /\ answered'.resp = Entity
                     ELSE /\ answered'.status = 500
                          /\ answered'.resp = DATABASE_UPDATE_ERROR
      ]_vars

\* postNewComment answered 500 for a post that is not stored, its comment
\* inserted all the same.
CommentSavedWithoutPost ==
    /\ answered.kind = "createComment"
    /\ answered.status = 500
    /\ answered.resp = DATABASE_UPDATE_ERROR
    /\ \E c \in DOMAIN comments : comments[c].post \notin DOMAIN posts

\* A form request whose validation chains recorded an error is answered at
\* once.
InvalidFormAnswered ==
    /\ AnsweredAtOnce
    /\ answered'.kind \in {"createPost", "editPost", "createComment", "editComment"}
    /\ answered'.invalid

\* The validation errors of the body a suspended form handler holds.
ErrorsHeld(rq) ==
    CASE rq.kind = "editPost" -> EditPostErrors(rq.body)
      [] rq.kind \in {"createComment", "editComment"} -> CommentErrors(rq.body)
      [] OTHER -> {}

\* C7 as stated: a form request whose validation fails is answered 200 with
\* the errors and nothing is persisted.
ValidationErrorsAnswered200 ==
    [][InvalidFormAnswered
         => /\ answered'.status = 200
            /\ answered'.resp = ValidationErrors
            /\ answered'.dbOps = 0
            /\ Stored' = Stored
      ]_vars

\* C7 amended: so it is for createPost and createComment, and for editPost
\* and editComment when the identifier is well-formed; with a malformed
\* identifier these two answer 400 InvalidId, and nothing is persisted
\* either.  No form handler goes on to its writes with such a body.
ValidationErrorsAnswered200WhenIdValid ==
    [][/\ InvalidFormAnswered
            => /\ answered'.dbOps = 0
               /\ Stored' = Stored
               /\ IF answered'.kind \in {"editPost", "editComment"}
                     /\ answered'.malformed
                  THEN answered'.status = 400 /\ answered'.resp = INVALID_ID
                  ELSE answered'.status = 200 /\ answered'.resp = ValidationErrors
       /\ \A r \in Slots :
            (req[r].pc = "idle" /\ req'[r].pc \in {"update", "writes"})
               => ErrorsHeld(req'[r]) = {} /\ Stored' = Stored
      ]_vars

\* An edit of a stored comment with an empty text was answered 200 with the
\* errors.
InvalidEditAnswered200 ==
    /\ answered.kind = "editComment"
    /\ answered.invalid
    /\ answered.status = 200
    /\ answered.id \in DOMAIN comments

\* C8: publishPost answers 400 InvalidId for a malformed id, else 400
\* InvalidQuery for a flag other than "true" and "false", and writes
\* nothing; else it sets isPublished of the stored post to (flag = "true")
\* and changes nothing else, or answers 404 and writes nothing.
PublishPostFrame ==
    [][\A r \in Slots, id \in {answered'.id}, flag \in PublishFlags :
         PublishPost(r, id, flag) =>
            /\ comments' = comments
            /\ req' = req
            /\ IF ~ObjectIdIsValid(id)
               THEN /\ answered'.status = 400 /\ answered'.resp = INVALID_ID
                    /\ posts' = posts
               ELSE IF flag \notin {"true", "false"}
               THEN /\ answered'.status = 400 /\ answered'.resp = INVALID_QUERY
                    /\ posts' = posts
               ELSE IF id \in DOMAIN posts
               THEN /\ answered'.status = 200
                    /\ DOMAIN posts' = DOMAIN posts
                    /\ posts'[id].isPublished = (flag = "true")
                    /\ \A f \in DOMAIN posts[id] \ {"isPublished"} :
                          posts'[id][f] = posts[id][f]
                    /\ \A p \in DOMAIN posts \ {id} : posts'[p] = posts[p]
               ELSE /\ answered'.status = 404 /\ answered'.resp = DOES_NOT_EXIST
                    /\ posts' = posts
      ]_vars

\* A post with a comment counted and an edited title was published.
PostPublished ==
    /\ answered.kind = "publishPost"
    /\ answered.status = 200
    /\ answered.id \in DOMAIN posts
    /\ posts[answered.id].isPublished
    /\ posts[answered.id].commentCount = 1
    /\ posts[answered.id].title = "New"

\* The requests of deleteComment that took comment c out of the collection
\* and have the decrement still to do.
Decrementing(c) ==
    {r \in Slots : req[r].kind = "deleteComment" /\ req[r].pc = "decrement"
                   /\ req[r].id = c}

\* C9: of the deleteComment requests for one comment, only the one whose
\* delete finds it stored goes on, to decrement its post once and answer
\* 204; the delete takes the comment out for good, so every other one
\* finds nothing, answers 404 at once and writes nothing.
CommentDeletedOnce ==
    /\ [](\A c \in CommentIds :
             /\ Cardinality(Decrementing(c)) <= 1
             /\ Decrementing(c) # {} => c \notin DOMAIN comments)
    /\ [][/\ \A c \in CommentIds :
               /\ Decrementing(c)' \ Decrementing(c) # {}
                    => /\ c \in DOMAIN comments
                       /\ c \notin DOMAIN comments'
                       /\ posts' = posts
               /\ c \in DOMAIN comments' \ DOMAIN comments
                    => \E r \in Slots : CommentSave(r) /\ req[r].newId = c
               /\ \A r \in Decrementing(c) \ Decrementing(c)' :
                    /\ answered'.kind = "deleteComment"
                    /\ answered'.status = 204
                    /\ comments' = comments
                    /\ \A p \in DOMAIN posts :
                          posts'[p].commentCount =
                             IF p = req[r].local.post
                             THEN posts[p].commentCount - 1
                             ELSE posts[p].commentCount
          /\ (AnsweredAtOnce /\ answered'.kind = "deleteComment"
              /\ ~answered'.malformed)
               => /\ answered'.id \notin DOMAIN comments
                  /\ answered'.status = 404
                  /\ Stored' = Stored
         ]_vars

\* While one deleteComment has its decrement to do, a second one for the
\* same comment was answered 404.
SecondDeleteAnswered404 ==
    \E c \in CommentIds :
        /\ Decrementing(c) # {}
        /\ answered.kind = "deleteComment"
        /\ answered.id = c
        /\ answered.status = 404

\* C10 as stated: the update of an editPost whose body omits isPublished,
\* made after publishPost set the flag of the same post, leaves the flag as
\* publishPost set it.
EditKeepsPublishedFlag ==
    [][\A r \in Slots :
         (EditPostUpdate(r) /\ ~Has(req[r].body, "isPublished")
          /\ req[r].id \in DOMAIN posts
          /\ answered.kind = "publishPost" /\ answered.status = 200
          /\ answered.id = req[r].id)
            => posts'[req[r].id].isPublished = posts[req[r].id].isPublished
      ]_vars

\* C10 amended: the update of an editPost whose body omits isPublished
\* writes the flag editPost read, so a flag publishPost set between that
\* read and the update is lost, and one it set before the read is kept; a
\* publishPost that comes after the update sets its own.
EditWritesFlagItRead ==
    [][\A r \in Slots :
         /\ (EditPostUpdate(r) /\ ~Has(req[r].body, "isPublished")
             /\ req[r].id \in DOMAIN posts)
              => posts'[req[r].id].isPublished = req[r].local.isPublished
         /\ \A id \in {answered'.id} \cap DOMAIN posts, flag \in {"true", "false"} :
              PublishPost(r, id, flag)
                 => posts'[id].isPublished = (flag = "true")
      ]_vars

\* publishPost set the flag of a post while an editPost that omits
\* isPublished is between its read and its update, holding the old flag.
PublishedDuringEdit ==
    \E r \in Slots :
        /\ req[r].kind = "editPost"
        /\ req[r].pc = "update"
        /\ ~Has(req[r].body, "isPublished")
        /\ req[r].id \in DOMAIN posts
        /\ answered.kind = "publishPost"
        /\ answered.status = 200
        /\ answered.id = req[r].id
        /\ posts[req[r].id].isPublished # req[r].local.isPublished

====
